---- MODULE Spec2Model ----
(***************************************************************************)
(* Model of handlers/pod.py: the Pod event handlers add_pod, update_pod    *)
(* and delete_pod, the two process-wide caches, the KDEndpoint adapter     *)
(* and load_caches, against the k8s subtree of the policy datastore.       *)
(*                                                                         *)
(* Python values are modelled as follows.                                  *)
(*   dict            a function whose DOMAIN is the set of keys present    *)
(*   None            the record None                                       *)
(*   list            a sequence; the ipv4_nat list is wrapped as           *)
(*                   [list |-> <<...>>] so that it compares with None      *)
(*   Pod event       [metadata |-> md], md a dict with "namespace", "name" *)
(*                   and optionally "labels"                               *)
(*   endpoint        a record of the fields the handlers read or write:    *)
(*                   workload_id, ipv4_nets, labels and (KDEndpoint only)  *)
(*                   ipv4_nat; the other fields are copied unchanged       *)
(* Events are handled one at a time, so each handler is one action.        *)
(***************************************************************************)
EXTENDS Integers, Sequences, FiniteSets, TLC

VARIABLES
    label_cache,     \* dict: workload id -> label dict
    endpoint_cache,  \* dict: workload id -> KDEndpoint
    datastore,       \* dict: workload id -> endpoint JSON, orchestrator k8s
    calls,           \* datastore client calls of the latest handler invocation
    last,            \* the latest handler invocation: op, parsed event, outcome
    deferred,        \* dict: workload id -> labels of a MODIFIED event left
                     \* unwritten for want of an endpoint, until the next
                     \* ADDED or MODIFIED event of the workload
    arg,             \* function calls on their own: the object as passed
    obj,             \* function calls on their own: the object after the call
    ret,             \* function calls on their own: the value returned
    pc               \* function calls on their own: the call made or to make

vars == <<label_cache, endpoint_cache, datastore, calls, last, deferred,
          arg, obj, ret, pc>>

----------------------------------------------------------------------------
(* Bounds and input sets *)

MaxNets == 2

K8S_NAMESPACE_LABEL == "calico/k8s_ns"

KD_PUBLIC_IP_LABEL == "kuberdock-public-ip"

Namespaces == {"default", "kube"}

Names == {"a"}

\* Label values that netaddr's IPAddress() accepts, and all label values.
ValidIPs == {"1.2.3.4"}

LabelValues == ValidIPs \cup {"not-an-ip"}

LabelKeys == {K8S_NAMESPACE_LABEL, KD_PUBLIC_IP_LABEL, "app"}

None == [none |-> TRUE]

EmptyDict == [k \in {} |-> ""]

\* Every label dict over LabelKeys and LabelValues.
LabelDicts == UNION {[K -> LabelValues] : K \in SUBSET LabelKeys}

Prefix(i) == [ip |-> "10.0.0." \o ToString(i), prefixlen |-> 32]

\* The IPv4 prefixes the CNI plugin gives the pods of a namespace: MaxNets
\* prefixes in the first namespace, none (an IPv6-only pod) in the others.
PodNets(namespace) ==
    IF namespace = "default" THEN [i \in 1..MaxNets |-> Prefix(i)] ELSE <<>>

\* Every prefix list of at most MaxNets prefixes.
AllNets == UNION {[1..n -> {Prefix(i) : i \in 1..MaxNets}] : n \in 0..MaxNets}

----------------------------------------------------------------------------
(* Python dict operations *)

DictGetOrNone(d, k) == IF k \in DOMAIN d THEN d[k] ELSE None

DictHas(d, k) == k \in DOMAIN d

DictSet(d, k, v) == [x \in (DOMAIN d) \cup {k} |-> IF x = k THEN v ELSE d[x]]

DictDel(d, k) == [x \in (DOMAIN d) \ {k} |-> d[x]]

----------------------------------------------------------------------------
(* Pod events *)

PodMetadata ==
    {[namespace |-> ns, name |-> nm] : ns \in Namespaces, nm \in Names}
    \cup {[namespace |-> ns, name |-> nm, labels |-> l] :
             ns \in Namespaces, nm \in Names, l \in LabelDicts}

Pods == {[metadata |-> md] : md \in PodMetadata}

\* The events the watch delivers to the handlers: a pod without labels, a
\* pod with a valid public IP and with its own value under the namespace key
\* and, in the first namespace, a pod with an invalid public IP.
EventLabelDicts(namespace) ==
    [{K8S_NAMESPACE_LABEL, KD_PUBLIC_IP_LABEL} -> ValidIPs]
    \cup IF namespace = "default"
         THEN [{KD_PUBLIC_IP_LABEL} -> LabelValues \ ValidIPs]
         ELSE {}

EventPods ==
    {pod \in Pods :
        DictHas(pod.metadata, "labels")
            => pod.metadata.labels \in EventLabelDicts(pod.metadata.namespace)}

WorkloadId(namespace, name) == namespace \o "." \o name

WorkloadIds == {WorkloadId(ns, nm) : ns \in Namespaces, nm \in Names}

\* Mutant of parse_pod: an event without labels is given the labels dict.
parse_pod_setdefault(pod) ==
    LET md     == pod.metadata
        labels == DictSet(IF DictHas(md, "labels") THEN md.labels
                          ELSE EmptyDict,
                          K8S_NAMESPACE_LABEL, md.namespace)
    IN  [workload_id |-> WorkloadId(md.namespace, md.name),
         namespace |-> md.namespace,
         name |-> md.name,
         labels |-> labels,
         pod |-> [metadata |-> DictSet(md, "labels", labels)]]

\* Mutant of parse_pod: a namespace label the Pod declares is kept.
parse_pod_keep(pod) ==
    LET md          == pod.metadata
        labels      == IF DictHas(md, "labels") THEN md.labels ELSE EmptyDict
    IN  [workload_id |-> WorkloadId(md.namespace, md.name),
         namespace |-> md.namespace,
         name |-> md.name,
         labels |-> IF DictHas(labels, K8S_NAMESPACE_LABEL) THEN labels
                    ELSE DictSet(labels, K8S_NAMESPACE_LABEL, md.namespace),
         pod |-> pod]

\* parse_pod: the returned tuple, and the event object after the call (the
\* labels dict of the event, when there is one, is the dict that is updated).
parse_pod(pod) ==
    LET md          == pod.metadata
        labels0     == IF DictHas(md, "labels") THEN md.labels ELSE EmptyDict
        namespace   == md.namespace
        name        == md.name
        workload_id == WorkloadId(namespace, name)
        labels      == DictSet(labels0, K8S_NAMESPACE_LABEL, namespace)
    IN  [workload_id |-> workload_id,
         namespace |-> namespace,
         name |-> name,
         labels |-> labels,
         pod |-> IF DictHas(md, "labels")
                 THEN [metadata |-> DictSet(md, "labels", labels)]
                 ELSE pod]

----------------------------------------------------------------------------
(* KDEndpoint: the endpoint adapter *)

\* netaddr's IPAddress(v) returns instead of raising.
IPAddress(v) == v \in ValidIPs

NatList(ipv4_nets, ext_ip) ==
    [list |-> [i \in 1..Len(ipv4_nets) |->
                  [int_ip |-> ipv4_nets[i].ip, ext_ip |-> ext_ip]]]

\* Mutant of process_labels: without a valid public IP the NAT mapping is
\* left as it was.
process_labels_stale(self) ==
    IF DictHas(self.labels, KD_PUBLIC_IP_LABEL)
       /\ IPAddress(self.labels[KD_PUBLIC_IP_LABEL])
    THEN [self EXCEPT !.ipv4_nat =
              NatList(self.ipv4_nets, self.labels[KD_PUBLIC_IP_LABEL])]
    ELSE self

\* Mutant of process_labels: the label value is used without IPAddress().
process_labels_unchecked(self) ==
    IF DictHas(self.labels, KD_PUBLIC_IP_LABEL)
    THEN [self EXCEPT !.ipv4_nat =
              NatList(self.ipv4_nets, self.labels[KD_PUBLIC_IP_LABEL])]
    ELSE [self EXCEPT !.ipv4_nat = None]

process_labels(self) ==
    IF self.labels = EmptyDict
    THEN [self EXCEPT !.ipv4_nat = None]
    ELSE LET present      == DictHas(self.labels, KD_PUBLIC_IP_LABEL)
             \* kd_public_ip is None when the label is absent or IPAddress
             \* raised; a str is true when it is not empty
             kd_public_ip ==
                 IF present /\ IPAddress(self.labels[KD_PUBLIC_IP_LABEL])
                 THEN [str |-> self.labels[KD_PUBLIC_IP_LABEL]]
                 ELSE None
         IN  IF kd_public_ip # None /\ kd_public_ip.str # ""
             THEN [self EXCEPT !.ipv4_nat =
                       NatList(self.ipv4_nets, kd_public_ip.str)]
             ELSE [self EXCEPT !.ipv4_nat = None]

\* Mutant of from_endpoint: process_labels is not called on the copy.
from_endpoint_unprocessed(ep) ==
    [workload_id |-> ep.workload_id,
     ipv4_nets   |-> ep.ipv4_nets,
     labels      |-> ep.labels,
     ipv4_nat    |-> None]

\* KDEndpoint.__init__ followed by the field copies of from_endpoint.
from_endpoint(ep) ==
    process_labels([workload_id |-> ep.workload_id,
                    ipv4_nets   |-> ep.ipv4_nets,
                    labels      |-> ep.labels,
                    ipv4_nat    |-> None])

\* The JSON of the base Endpoint class.
EndpointJson(ep) ==
    [workload_id |-> ep.workload_id,
     ipv4_nets   |-> ep.ipv4_nets,
     labels      |-> ep.labels]

to_json(self) ==
    LET data == EndpointJson(self)
    IN  IF self.ipv4_nat # None /\ self.ipv4_nat.list # <<>>
        THEN DictSet(data, "ipv4_nat", self.ipv4_nat.list)
        ELSE data

----------------------------------------------------------------------------
(* The datastore client *)

RECURSIVE SetToSeq(_)
SetToSeq(S) ==
    IF S = {} THEN <<>>
    ELSE LET x == CHOOSE y \in S : TRUE
         IN  <<x>> \o SetToSeq(S \ {x})

\* client.get_endpoints(orchestrator_id="k8s"): the base Endpoint objects
\* read back from the stored JSON (an ipv4_nat key is not a field of Endpoint).
get_endpoints(ds) ==
    LET ids == SetToSeq(DOMAIN ds)
    IN  [i \in 1..Len(ids) |-> EndpointJson(ds[ids[i]])]

\* client.set_endpoint(endpoint): stores endpoint.to_json() under its key.
set_endpoint(ds, endpoint) == DictSet(ds, endpoint.workload_id, to_json(endpoint))

\* The record of a call: what was passed and whether it returned or raised.
GetCall(result) ==
    [op |-> "get_endpoints", orchestrator_id |-> "k8s", result |-> result]

SetCall(endpoint, result) ==
    [op |-> "set_endpoint", endpoint |-> endpoint, result |-> result]

\* How a datastore call ends: it returns, or it raises and has done nothing.
GetOutcomes == {"ok", "raise"}

SetOutcomes == {"ok", "raise"}

\* The first call that raises ends the invocation, so at most one does.
Outcomes ==
    {o \in [get : GetOutcomes, set : SetOutcomes] : o.get = "ok" \/ o.set = "ok"}

----------------------------------------------------------------------------
(* load_caches *)

\* Mutant of the loop of load_caches: the Label Cache is not filled.
RECURSIVE LoadLoop_endpoints_only(_, _, _)
LoadLoop_endpoints_only(endpoints, ec, lc) ==
    IF endpoints = <<>>
    THEN [endpoint_cache |-> ec, label_cache |-> lc]
    ELSE LET ep == Head(endpoints)
         IN  LoadLoop_endpoints_only(Tail(endpoints),
                                     DictSet(ec, ep.workload_id, ep), lc)

\* Mutant of the loop of load_caches: the Endpoint Cache is not filled.
RECURSIVE LoadLoop_labels_only(_, _, _)
LoadLoop_labels_only(endpoints, ec, lc) ==
    IF endpoints = <<>>
    THEN [endpoint_cache |-> ec, label_cache |-> lc]
    ELSE LET ep == Head(endpoints)
         IN  LoadLoop_labels_only(Tail(endpoints), ec,
                                  DictSet(lc, ep.workload_id, ep.labels))

\* load_caches, lines 165-167.
RECURSIVE LoadLoop(_, _, _)
LoadLoop(endpoints, ec, lc) ==
    IF endpoints = <<>>
    THEN [endpoint_cache |-> ec, label_cache |-> lc]
    ELSE LET ep == Head(endpoints)
         IN  LoadLoop(Tail(endpoints),
                      DictSet(ec, ep.workload_id, ep),
                      DictSet(lc, ep.workload_id, ep.labels))

\* Mutant of load_caches: the caches are emptied before they are filled.
load_caches_clearing(ec, lc, result) ==
    LoadLoop([i \in 1..Len(result) |-> from_endpoint(result[i])],
             EmptyDict, EmptyDict)

\* result is what client.get_endpoints returned.
load_caches(ec, lc, result) ==
    LoadLoop([i \in 1..Len(result) |-> from_endpoint(result[i])], ec, lc)

----------------------------------------------------------------------------
(* The handlers, as functions of the state they read *)

Result(lc, ec, ds, cs, outcome) ==
    [label_cache |-> lc, endpoint_cache |-> ec, datastore |-> ds,
     calls |-> cs, outcome |-> outcome]

\* Mutant of add_pod: the caches are loaded from the datastore first.
AddPodBody_reloads(pod, lc, ec, ds) ==
    LET p      == parse_pod(pod)
        loaded == load_caches(ec, lc, get_endpoints(ds))
    IN  Result(DictSet(loaded.label_cache, p.workload_id, p.labels),
               loaded.endpoint_cache, ds, <<GetCall("returned")>>, "returned")

\* Mutant of add_pod: an entry the Label Cache already holds is kept.
AddPodBody_setdefault(pod, lc, ec, ds) ==
    LET p == parse_pod(pod)
    IN  Result(IF DictHas(lc, p.workload_id) THEN lc
               ELSE DictSet(lc, p.workload_id, p.labels),
               ec, ds, <<>>, "returned")

\* add_pod, lines 46-47.
AddPodBody(pod, lc, ec, ds) ==
    LET p == parse_pod(pod)
    IN  Result(DictSet(lc, p.workload_id, p.labels), ec, ds, <<>>, "returned")

\* Mutant of the label comparison: without a Label Cache entry the labels
\* count as unchanged.
LabelsUnchanged_default(lc, workload_id, labels) ==
    ~ DictHas(lc, workload_id) \/ lc[workload_id] = labels

\* Mutant of the label comparison: the labels always count as changed.
LabelsUnchanged_never(lc, workload_id, labels) == FALSE

\* update_pod, lines 64-69: old_labels == labels.
LabelsUnchanged(lc, workload_id, labels) ==
    DictGetOrNone(lc, workload_id) = labels

\* Mutant of the cache lookup: the endpoint is never found.
CachedEndpoint_miss(ec, workload_id) == None

\* update_pod, lines 75 and 80: endpoint_cache.get(workload_id).
CachedEndpoint(ec, workload_id) == DictGetOrNone(ec, workload_id)

\* Mutant of the missing endpoint: it is reported as an error.
EndpointMissing_raises(lc, ec, ds, cs) == Result(lc, ec, ds, cs, "raised")

\* update_pod, lines 81-88: no endpoint after the reload, wait for creation.
EndpointMissing(lc, ec, ds, cs) == Result(lc, ec, ds, cs, "returned")

\* Mutant of the label update: the NAT mapping is not recomputed.
SetLabels_keep_nat(endpoint, labels) == [endpoint EXCEPT !.labels = labels]

\* update_pod, lines 92-93, on the endpoint object itself.
SetLabels(endpoint, labels) ==
    process_labels([endpoint EXCEPT !.labels = labels])

\* update_pod, lines 91-100. The endpoint is the object the Endpoint Cache
\* holds under workload_id, so its new fields show in the cache at once.
WriteEndpoint(lc, ec, ds, workload_id, labels, endpoint, cs, set_outcome) ==
    LET updated == SetLabels(endpoint, labels)
        ec1     == DictSet(ec, workload_id, updated)
    IN  CASE set_outcome = "ok" ->
               Result(DictSet(lc, workload_id, labels),
                      DictSet(ec1, workload_id, updated),
                      set_endpoint(ds, updated),
                      Append(cs, SetCall(updated, "returned")), "returned")
          [] set_outcome = "raise" ->
               Result(lc, ec1, ds,
                      Append(cs, SetCall(updated, "raised")), "raised")

\* update_pod, lines 59-100.
UpdatePodBody(pod, lc, ec, ds, get_outcome, set_outcome) ==
    LET p           == parse_pod(pod)
        workload_id == p.workload_id
        labels      == p.labels
    IN  IF LabelsUnchanged(lc, workload_id, labels)
        THEN Result(lc, ec, ds, <<>>, "returned")
        ELSE IF CachedEndpoint(ec, workload_id) # None
        THEN WriteEndpoint(lc, ec, ds, workload_id, labels,
                           CachedEndpoint(ec, workload_id), <<>>, set_outcome)
        ELSE IF get_outcome = "raise"
        THEN Result(lc, ec, ds, <<GetCall("raised")>>, "raised")
        ELSE LET loaded == load_caches(ec, lc, get_endpoints(ds))
                 lc1    == loaded.label_cache
                 ec1    == loaded.endpoint_cache
             IN  IF CachedEndpoint(ec1, workload_id) = None
                 THEN EndpointMissing(lc1, ec1, ds, <<GetCall("returned")>>)
                 ELSE WriteEndpoint(lc1, ec1, ds, workload_id, labels,
                                    CachedEndpoint(ec1, workload_id),
                                    <<GetCall("returned")>>, set_outcome)

\* Mutant of delete_pod: the Endpoint Cache entry is left.
DeletePodBody_labels_only(pod, lc, ec, ds) ==
    LET workload_id == parse_pod(pod).workload_id
        lc1 == IF DictHas(lc, workload_id) THEN DictDel(lc, workload_id) ELSE lc
    IN  Result(lc1, ec, ds, <<>>, "returned")

\* delete_pod, lines 177-192: a KeyError of del is passed over.
DeletePodBody(pod, lc, ec, ds) ==
    LET workload_id == parse_pod(pod).workload_id
        lc1 == IF DictHas(lc, workload_id) THEN DictDel(lc, workload_id) ELSE lc
        ec1 == IF DictHas(ec, workload_id) THEN DictDel(ec, workload_id) ELSE ec
    IN  Result(lc1, ec1, ds, <<>>, "returned")

----------------------------------------------------------------------------
(* Actions *)

NoInvocation == [op |-> "none"]

\* What is recorded of a handler invocation: the handler, the event as
\* delivered, what parse_pod returned for it (delete_pod keeps only the
\* workload id), how the handler ended, for update_pod the record the
\* datastore held for the workload when the handler was invoked and whether
\* the event carries the labels of the MODIFIED event of the workload that
\* was left unwritten, and, for update_pod and delete_pod, whether the
\* invocation before it, with nothing in between, was of the same handler
\* for the same workload and labels.
Invocation(op, pod, outcome) ==
    LET p      == parse_pod(pod)
        labels == IF op = "delete" THEN None ELSE p.labels
    IN  [op |-> op, pod |-> pod, workload_id |-> p.workload_id,
         namespace |-> p.namespace, name |-> p.name, labels |-> labels,
         outcome |-> outcome,
         stored |-> IF op = "update"
                    THEN DictGetOrNone(datastore, p.workload_id)
                    ELSE None,
         pending |-> /\ op = "update"
                     /\ DictHas(deferred, p.workload_id)
                     /\ deferred[p.workload_id] = labels,
         repeat |-> /\ op # "add"
                    /\ last.op = op
                    /\ last.workload_id = p.workload_id
                    /\ last.labels = labels]

\* update_pod ended at lines 86-88: it reloaded, found no endpoint of the
\* workload and returned.
Deferred(r) ==
    /\ r.outcome = "returned"
    /\ r.calls = <<GetCall("returned")>>

Forget(d, workload_id) ==
    IF DictHas(d, workload_id) THEN DictDel(d, workload_id) ELSE d

\* An ADDED event is delivered.
add_pod(pod) ==
    \E r \in {AddPodBody(pod, label_cache, endpoint_cache, datastore)} :
        /\ label_cache' = r.label_cache
        /\ endpoint_cache' = r.endpoint_cache
        /\ datastore' = r.datastore
        /\ calls' = r.calls
        /\ last' = Invocation("add", pod, r.outcome)
        /\ deferred' = Forget(deferred, parse_pod(pod).workload_id)
        /\ UNCHANGED <<arg, obj, ret, pc>>

\* A MODIFIED event is delivered.
update_pod(pod) ==
    \E o \in Outcomes :
        \E r \in {UpdatePodBody(pod, label_cache, endpoint_cache, datastore,
                                o.get, o.set)} :
            /\ label_cache' = r.label_cache
            /\ endpoint_cache' = r.endpoint_cache
            /\ datastore' = r.datastore
            /\ calls' = r.calls
            /\ last' = Invocation("update", pod, r.outcome)
            /\ deferred' =
                   IF Deferred(r)
                   THEN DictSet(deferred, parse_pod(pod).workload_id,
                                parse_pod(pod).labels)
                   ELSE Forget(deferred, parse_pod(pod).workload_id)
            /\ UNCHANGED <<arg, obj, ret, pc>>

\* A DELETED event is delivered.
delete_pod(pod) ==
    \E r \in {DeletePodBody(pod, label_cache, endpoint_cache, datastore)} :
        /\ label_cache' = r.label_cache
        /\ endpoint_cache' = r.endpoint_cache
        /\ datastore' = r.datastore
        /\ calls' = r.calls
        /\ last' = Invocation("delete", pod, r.outcome)
        /\ UNCHANGED <<deferred, arg, obj, ret, pc>>

\* The CNI plugin creates or replaces the endpoint of a pod in the datastore.
CniLabelDicts(namespace) ==
    {DictSet(l, K8S_NAMESPACE_LABEL, namespace) :
        l \in {EmptyDict} \cup [{KD_PUBLIC_IP_LABEL} -> ValidIPs]}

cni_create(namespace, name, labels) ==
    /\ datastore' = DictSet(datastore, WorkloadId(namespace, name),
                            [workload_id |-> WorkloadId(namespace, name),
                             ipv4_nets   |-> PodNets(namespace),
                             labels      |-> labels])
    /\ calls' = <<>>
    /\ last' = NoInvocation
    /\ UNCHANGED <<label_cache, endpoint_cache, deferred, arg, obj, ret, pc>>

\* The CNI plugin deletes the endpoint of a pod from the datastore.
cni_delete(workload_id) ==
    /\ DictHas(datastore, workload_id)
    /\ datastore' = DictDel(datastore, workload_id)
    /\ calls' = <<>>
    /\ last' = NoInvocation
    /\ UNCHANGED <<label_cache, endpoint_cache, deferred, arg, obj, ret, pc>>

Init ==
    /\ label_cache = EmptyDict
    /\ endpoint_cache = EmptyDict
    /\ datastore = EmptyDict
    /\ calls = <<>>
    /\ last = NoInvocation
    /\ deferred = EmptyDict
    /\ arg = None
    /\ obj = None
    /\ ret = None
    /\ pc = "handlers"

Next ==
    \/ \E pod \in EventPods : add_pod(pod)
    \/ \E pod \in EventPods : update_pod(pod)
    \/ \E pod \in EventPods : delete_pod(pod)
    \/ \E ns \in Namespaces, nm \in Names :
          \E l \in CniLabelDicts(ns) : cni_create(ns, nm, l)
    \/ \E w \in WorkloadIds : cni_delete(w)

Spec == Init /\ [][Next]_vars

----------------------------------------------------------------------------
(* parse_pod and KDEndpoint.process_labels called on their own *)

\* KDEndpoint objects in any state: any labels, any prefixes, and an ipv4_nat
\* left by an earlier call.
KDEndpoints ==
    [workload_id : WorkloadIds,
     ipv4_nets   : AllNets,
     labels      : LabelDicts,
     ipv4_nat    : {None} \cup {NatList(nets, "9.9.9.9") : nets \in AllNets}]

FnCaches ==
    /\ label_cache = EmptyDict
    /\ endpoint_cache = EmptyDict
    /\ datastore = EmptyDict
    /\ calls = <<>>
    /\ last = NoInvocation
    /\ deferred = EmptyDict

FnInit ==
    /\ FnCaches
    /\ \/ pc = "parse_pod" /\ arg \in Pods
       \/ pc = "process_labels" /\ arg \in KDEndpoints
    /\ obj = arg
    /\ ret = None

call_parse_pod ==
    /\ pc = "parse_pod"
    /\ obj' = parse_pod(arg).pod
    /\ ret' = [workload_id |-> parse_pod(arg).workload_id,
               namespace   |-> parse_pod(arg).namespace,
               name        |-> parse_pod(arg).name,
               labels      |-> parse_pod(arg).labels]
    /\ pc' = "parse_pod returned"
    /\ UNCHANGED <<label_cache, endpoint_cache, datastore, calls, last,
                   deferred, arg>>

call_process_labels ==
    /\ pc = "process_labels"
    /\ obj' = process_labels(arg)
    /\ ret' = None
    /\ pc' = "process_labels returned"
    /\ UNCHANGED <<label_cache, endpoint_cache, datastore, calls, last,
                   deferred, arg>>

FnNext == call_parse_pod \/ call_process_labels

FnSpec == FnInit /\ [][FnNext]_vars

----------------------------------------------------------------------------
(* Vocabulary of the properties *)

SetIndexes(cs) == {i \in 1..Len(cs) : cs[i].op = "set_endpoint"}

GetIndexes(cs) == {i \in 1..Len(cs) : cs[i].op = "get_endpoints"}

NoCallRaised(cs) == \A i \in 1..Len(cs) : cs[i].result = "returned"

\* The NAT mapping the specification derives from a label set and a list of
\* IPv4 prefixes.
DerivedNat(labels, ipv4_nets) ==
    IF DictHas(labels, KD_PUBLIC_IP_LABEL)
       /\ labels[KD_PUBLIC_IP_LABEL] \in ValidIPs
    THEN [list |-> [i \in 1..Len(ipv4_nets) |->
                       [int_ip |-> ipv4_nets[i].ip,
                        ext_ip |-> labels[KD_PUBLIC_IP_LABEL]]]]
    ELSE None

\* In the state before the step, the labels of the cache differ from labels.
LabelsDiffer(workload_id, labels) ==
    ~ (DictHas(label_cache, workload_id) /\ label_cache[workload_id] = labels)

----------------------------------------------------------------------------
(* C1 *)

\* C1: when update_pod handles a MODIFIED event whose parsed labels differ
\* from the Label Cache entry, an endpoint of the workload is in the Endpoint
\* Cache or in the datastore at the reload, and the handler returns, then
\* set_endpoint was called once, with an endpoint that carries the new labels
\* and the NAT mapping derived from them, the Label Cache maps the workload to
\* the new labels and the Endpoint Cache maps it to that endpoint.
C1_UpdateWritesEndpoint ==
    [][ ( /\ last'.op = "update"
          /\ last'.outcome = "returned"
          /\ LabelsDiffer(last'.workload_id, last'.labels)
          /\ \/ DictHas(endpoint_cache, last'.workload_id)
             \/ DictHas(datastore, last'.workload_id) )
        => /\ Cardinality(SetIndexes(calls')) = 1
           /\ \A i \in SetIndexes(calls') :
                 /\ calls'[i].endpoint.workload_id = last'.workload_id
                 /\ calls'[i].endpoint.labels = last'.labels
                 /\ calls'[i].endpoint.ipv4_nat =
                        DerivedNat(last'.labels, calls'[i].endpoint.ipv4_nets)
                 /\ DictHas(endpoint_cache', last'.workload_id)
                 /\ endpoint_cache'[last'.workload_id] = calls'[i].endpoint
           /\ DictHas(label_cache', last'.workload_id)
           /\ label_cache'[last'.workload_id] = last'.labels ]_vars

\* An update that reloaded, found the endpoint and wrote it with a NAT list.
C1_Witness ==
    /\ last.op = "update"
    /\ last.outcome = "returned"
    /\ Len(calls) = 2
    /\ calls[1].op = "get_endpoints"
    /\ calls[2].op = "set_endpoint"
    /\ calls[2].endpoint.ipv4_nat # None
    /\ calls[2].endpoint.ipv4_nat.list # <<>>
    /\ label_cache[last.workload_id] = last.labels

----------------------------------------------------------------------------
(* C2 *)

\* C2 as stated: when update_pod is invoked twice in a row with identical
\* labels and the first invocation returned, the second invocation makes no
\* datastore call and changes neither cache.
C2_SecondIsNoOp ==
    [][ ( /\ last'.op = "update"
          /\ last'.repeat
          /\ last.outcome = "returned" )
        => /\ calls' = <<>>
           /\ label_cache' = label_cache
           /\ endpoint_cache' = endpoint_cache ]_vars

\* C2 amended: when update_pod is invoked twice in a row with identical
\* labels and the first invocation returned, the second invocation never calls
\* set_endpoint and changes neither the caches nor the datastore; it makes no
\* datastore call at all when the first invocation found the labels unchanged
\* or wrote the endpoint, and it repeats the one reload when the first
\* invocation had reloaded and found no endpoint.
C2_SecondNeverWrites ==
    [][ ( /\ last'.op = "update"
          /\ last'.repeat
          /\ last.outcome = "returned" )
        => /\ SetIndexes(calls') = {}
           /\ label_cache' = label_cache
           /\ endpoint_cache' = endpoint_cache
           /\ datastore' = datastore
           /\ Len(calls') <= 1
           /\ (calls = <<>> \/ SetIndexes(calls) # {}) => calls' = <<>>
           /\ (calls # <<>> /\ SetIndexes(calls) = {})
                 => Cardinality(GetIndexes(calls')) = 1
           /\ SetIndexes(calls) # {}
                 => label_cache[last.workload_id] = last.labels ]_vars

\* The second of two identical updates, the first of which was deferred.
C2_Witness ==
    /\ last.op = "update"
    /\ last.repeat
    /\ last.outcome = "returned"
    /\ calls = <<GetCall("returned")>>

----------------------------------------------------------------------------
(* C3 *)

\* C3: when update_pod sees changed labels for a workload that is neither in
\* the Endpoint Cache nor in the datastore, and no datastore call raises, it
\* calls get_endpoints exactly once and returns without calling set_endpoint.
C3_UnknownWorkloadReloadsOnce ==
    [][ ( /\ last'.op = "update"
          /\ LabelsDiffer(last'.workload_id, last'.labels)
          /\ ~ DictHas(endpoint_cache, last'.workload_id)
          /\ ~ DictHas(datastore, last'.workload_id)
          /\ NoCallRaised(calls') )
        => /\ calls' = <<GetCall("returned")>>
           /\ last'.outcome = "returned"
           /\ datastore' = datastore ]_vars

\* An update that reloaded, still found no endpoint and returned, while the
\* datastore held the endpoint of another workload.
C3_Witness ==
    /\ last.op = "update"
    /\ last.outcome = "returned"
    /\ calls = <<GetCall("returned")>>
    /\ ~ DictHas(endpoint_cache, last.workload_id)
    /\ ~ DictHas(datastore, last.workload_id)
    /\ datastore # EmptyDict

----------------------------------------------------------------------------
(* C4 *)

\* C4: after add_pod returns, the Label Cache maps the workload identity
\* namespace.name of the event to the parsed label set of the event, namespace
\* label included, whatever the caches held before.
C4_AddStoresLabels ==
    last.op = "add"
        => /\ last.outcome = "returned"
           /\ last.workload_id = last.pod.metadata.namespace \o "."
                                     \o last.pod.metadata.name
           /\ DictHas(label_cache, last.workload_id)
           /\ label_cache[last.workload_id] = last.labels
           /\ DictHas(last.labels, K8S_NAMESPACE_LABEL)
           /\ last.labels[K8S_NAMESPACE_LABEL] = last.pod.metadata.namespace
           /\ \A k \in DOMAIN last.labels \ {K8S_NAMESPACE_LABEL} :
                 /\ DictHas(last.pod.metadata, "labels")
                 /\ DictHas(last.pod.metadata.labels, k)
                 /\ last.labels[k] = last.pod.metadata.labels[k]
           /\ DictHas(last.pod.metadata, "labels")
                 => DOMAIN last.pod.metadata.labels \subseteq DOMAIN last.labels

\* An ADDED event for a workload whose cached endpoint carries other labels:
\* the entry the event replaced was another one.
C4_Witness ==
    /\ last.op = "add"
    /\ DictHas(endpoint_cache, last.workload_id)
    /\ endpoint_cache[last.workload_id].labels # label_cache[last.workload_id]
    /\ DictHas(label_cache[last.workload_id], KD_PUBLIC_IP_LABEL)

----------------------------------------------------------------------------
(* C5 *)

\* C5: delete_pod returns whatever the caches hold; afterwards the workload
\* is in neither cache, the entries of the other workloads are the same, no
\* datastore call was made and the datastore is the same; a second deletion
\* of the same workload changes nothing.
C5_DeleteRemovesEntries ==
    [][ last'.op = "delete"
        => /\ last'.outcome = "returned"
           /\ ~ DictHas(label_cache', last'.workload_id)
           /\ ~ DictHas(endpoint_cache', last'.workload_id)
           /\ \A w \in WorkloadIds \ {last'.workload_id} :
                 /\ DictGetOrNone(label_cache', w) = DictGetOrNone(label_cache, w)
                 /\ DictGetOrNone(endpoint_cache', w)
                        = DictGetOrNone(endpoint_cache, w)
           /\ calls' = <<>>
           /\ datastore' = datastore
           /\ last'.repeat => /\ label_cache' = label_cache
                              /\ endpoint_cache' = endpoint_cache ]_vars

\* A second deletion in a row, while the other workload is in both caches.
C5_Witness ==
    /\ last.op = "delete"
    /\ last.repeat
    /\ label_cache # EmptyDict
    /\ endpoint_cache # EmptyDict

----------------------------------------------------------------------------
(* C6 *)

\* C6: for any label set and any list of IPv4 prefixes, process_labels leaves
\* a NAT mapping that is, when kuberdock-public-ip is present and valid, the
\* list of one (int_ip, ext_ip) entry per prefix, in prefix order, each with
\* the address of its prefix and the public IP, and that is None otherwise
\* (label absent, label invalid, no labels at all).
C6_NatDerivation ==
    pc = "process_labels returned"
        => /\ obj.labels = arg.labels
           /\ obj.ipv4_nets = arg.ipv4_nets
           /\ IF /\ DictHas(arg.labels, KD_PUBLIC_IP_LABEL)
                 /\ arg.labels[KD_PUBLIC_IP_LABEL] \in ValidIPs
              THEN /\ obj.ipv4_nat # None
                   /\ Len(obj.ipv4_nat.list) = Len(arg.ipv4_nets)
                   /\ \A i \in 1..Len(arg.ipv4_nets) :
                         obj.ipv4_nat.list[i] =
                             [int_ip |-> arg.ipv4_nets[i].ip,
                              ext_ip |-> arg.labels[KD_PUBLIC_IP_LABEL]]
              ELSE obj.ipv4_nat = None

\* process_labels called with a valid public IP and several prefixes, not in
\* pool order, on an endpoint that carried another NAT list.
C6_Witness ==
    /\ pc = "process_labels returned"
    /\ arg.ipv4_nat # None
    /\ Len(arg.ipv4_nets) > 1
    /\ arg.ipv4_nets[1] # Prefix(1)
    /\ obj.ipv4_nat # None
    /\ obj.ipv4_nat # arg.ipv4_nat
    /\ Len(obj.ipv4_nat.list) = Len(arg.ipv4_nets)

----------------------------------------------------------------------------
(* C7 *)

\* C7: for every Pod event of namespace N that add_pod or update_pod handles,
\* the parsed label set maps the namespace key to N, and so does every label
\* set add_pod stores in the Label Cache and every label set update_pod
\* passes to set_endpoint or stores, whether the Pod declared no labels,
\* other labels or another value under the namespace key.
C7_NamespaceLabel ==
    last.op \in {"add", "update"}
        => /\ DictHas(last.labels, K8S_NAMESPACE_LABEL)
           /\ last.labels[K8S_NAMESPACE_LABEL] = last.pod.metadata.namespace
           /\ last.namespace = last.pod.metadata.namespace
           /\ last.op = "add"
                 => /\ DictHas(label_cache[last.workload_id], K8S_NAMESPACE_LABEL)
                    /\ label_cache[last.workload_id][K8S_NAMESPACE_LABEL]
                           = last.pod.metadata.namespace
           /\ \A i \in SetIndexes(calls) :
                 /\ DictHas(calls[i].endpoint.labels, K8S_NAMESPACE_LABEL)
                 /\ calls[i].endpoint.labels[K8S_NAMESPACE_LABEL]
                        = last.pod.metadata.namespace
                 /\ last.outcome = "returned"
                       => label_cache[last.workload_id][K8S_NAMESPACE_LABEL]
                              = last.pod.metadata.namespace

\* An update that wrote the endpoint of a Pod which declared another value
\* under the namespace key.
C7_Witness ==
    /\ last.op = "update"
    /\ last.outcome = "returned"
    /\ SetIndexes(calls) # {}
    /\ DictHas(last.pod.metadata, "labels")
    /\ DictHas(last.pod.metadata.labels, K8S_NAMESPACE_LABEL)
    /\ last.pod.metadata.labels[K8S_NAMESPACE_LABEL]
           # last.pod.metadata.namespace

----------------------------------------------------------------------------
(* C8 *)

\* The Label Cache entry of a cached endpoint is missing or is not the label
\* set of that endpoint.
Mismatch(lc, ec, w) ==
    DictHas(ec, w) /\ ~ (DictHas(lc, w) /\ lc[w] = ec[w].labels)

\* C8 as stated: between handler invocations, every workload that has an
\* Endpoint Cache entry has a Label Cache entry, and that entry equals the
\* label set of the cached endpoint. It holds of the empty caches; stated of
\* the steps, a handler that returns keeps it.
C8_CachesAgree ==
    [][ ( /\ \A w \in WorkloadIds : ~ Mismatch(label_cache, endpoint_cache, w)
          /\ last'.op # "none"
          /\ last'.outcome = "returned" )
        => \A w \in WorkloadIds : ~ Mismatch(label_cache', endpoint_cache', w)
      ]_vars

\* C8 amended: between handler invocations, every workload that has an
\* Endpoint Cache entry has a Label Cache entry. The entry equals the label
\* set of the cached endpoint when load_caches loads it and when update_pod
\* has written the endpoint; the two come to differ only for the workload of
\* an ADDED event, which replaces the Label Cache entry alone, or of a
\* MODIFIED event whose set_endpoint raised, after the endpoint object was
\* given the new labels and before the Label Cache was.
C8_CachesShareKeys ==
    [][ \A w \in WorkloadIds :
          /\ DictHas(endpoint_cache', w) => DictHas(label_cache', w)
          /\ ( /\ Mismatch(label_cache', endpoint_cache', w)
               /\ ~ Mismatch(label_cache, endpoint_cache, w) )
             => /\ last'.op \in {"add", "update"}
                /\ last'.workload_id = w
                /\ last'.op = "update"
                      => /\ last'.outcome = "raised"
                         /\ SetIndexes(calls') # {}
          /\ ( /\ last'.op = "update"
               /\ last'.outcome = "returned"
               /\ calls' # <<>>
               /\ \/ w = last'.workload_id /\ SetIndexes(calls') # {}
                  \/ calls'[1].op = "get_endpoints" /\ DictHas(datastore, w) )
             => ~ Mismatch(label_cache', endpoint_cache', w) ]_vars

\* An ADDED event has left the Label Cache entry of a cached endpoint
\* different from the labels of the endpoint, after updates that all returned.
C8_Witness ==
    /\ last.op = "add"
    /\ Mismatch(label_cache, endpoint_cache, last.workload_id)
    /\ DictHas(label_cache, last.workload_id)
    /\ \E w \in WorkloadIds \ {last.workload_id} :
          /\ DictHas(endpoint_cache, w)
          /\ ~ Mismatch(label_cache, endpoint_cache, w)

----------------------------------------------------------------------------
(* C9 *)

\* The step is an update_pod invocation in which load_caches ran.
Reloaded ==
    /\ last'.op = "update"
    /\ calls' # <<>>
    /\ calls'[1] = GetCall("returned")

\* The workloads whose cache entries are, after the step, as load_caches left
\* them: all but the workload update_pod then wrote.
AsLoaded == {w \in WorkloadIds : SetIndexes(calls') = {} \/ w # last'.workload_id}

\* After the step the caches hold for w the endpoint the datastore returned.
LoadedFromDatastore(w) ==
    /\ DictHas(endpoint_cache', w)
    /\ endpoint_cache'[w].workload_id = w
    /\ endpoint_cache'[w].labels = datastore[w].labels
    /\ endpoint_cache'[w].ipv4_nets = datastore[w].ipv4_nets
    /\ endpoint_cache'[w].ipv4_nat =
           DerivedNat(datastore[w].labels, datastore[w].ipv4_nets)
    /\ DictHas(label_cache', w)
    /\ label_cache'[w] = datastore[w].labels

\* C9 as stated: after load_caches the key set of each cache is the set of
\* workload identities get_endpoints returned, each entry is the returned
\* endpoint and its label set, and no earlier entry that is not in the result
\* set survives.
C9_ReloadReplaces ==
    [][ Reloaded
        => \A w \in AsLoaded :
              IF DictHas(datastore, w)
              THEN LoadedFromDatastore(w)
              ELSE ~ DictHas(endpoint_cache', w) /\ ~ DictHas(label_cache', w)
      ]_vars

\* C9 amended: after load_caches every workload identity get_endpoints
\* returned has the returned endpoint as its Endpoint Cache entry and the
\* label set of that endpoint as its Label Cache entry; the entries of the
\* workloads that are not in the result set are left as they were, they are
\* not discarded.
C9_ReloadMerges ==
    [][ Reloaded
        => \A w \in AsLoaded :
              IF DictHas(datastore, w)
              THEN LoadedFromDatastore(w)
              ELSE /\ DictGetOrNone(endpoint_cache', w)
                          = DictGetOrNone(endpoint_cache, w)
                   /\ DictGetOrNone(label_cache', w)
                          = DictGetOrNone(label_cache, w)
      ]_vars

\* A reload has loaded the endpoint of one workload with its NAT list and
\* has kept the entries of the other workload, which the datastore no longer
\* holds.
C9_Witness ==
    /\ last.op = "update"
    /\ calls # <<>>
    /\ calls[1] = GetCall("returned")
    /\ \E w \in WorkloadIds \ {last.workload_id} :
          /\ ~ DictHas(datastore, w)
          /\ DictHas(endpoint_cache, w)
          /\ DictHas(label_cache, w)
    /\ \E w \in DOMAIN datastore :
          /\ DictHas(endpoint_cache, w)
          /\ endpoint_cache[w].ipv4_nat # None

----------------------------------------------------------------------------
(* C10 *)

\* C10: one update_pod invocation calls set_endpoint at most once and
\* get_endpoints at most once; it calls get_endpoints only when the labels
\* changed and the workload has no Endpoint Cache entry, and then before any
\* set_endpoint.
C10_AtMostOneReadOneWrite ==
    [][ last'.op = "update"
        => /\ Cardinality(SetIndexes(calls')) <= 1
           /\ Cardinality(GetIndexes(calls')) <= 1
           /\ GetIndexes(calls') # {}
                 => /\ LabelsDiffer(last'.workload_id, last'.labels)
                    /\ ~ DictHas(endpoint_cache, last'.workload_id)
           /\ \A i \in GetIndexes(calls'), j \in SetIndexes(calls') : i < j
           /\ SetIndexes(calls') # {}
                 => LabelsDiffer(last'.workload_id, last'.labels)
      ]_vars

\* An update whose set_endpoint raised after a reload.
C10_Witness ==
    /\ last.op = "update"
    /\ last.outcome = "raised"
    /\ Len(calls) = 2
    /\ calls[1].op = "get_endpoints"
    /\ calls[2].op = "set_endpoint"

----------------------------------------------------------------------------
(* C11 *)

----------------------------------------------------------------------------
(* C12 *)

\* The NAT mapping of the endpoint is the derivation from the label set and
\* the IPv4 prefixes the endpoint itself carries.
NatIsDerived(ep) == ep.ipv4_nat = DerivedNat(ep.labels, ep.ipv4_nets)

\* C12: in every reachable state, every endpoint the Endpoint Cache holds
\* and every endpoint passed to set_endpoint has the NAT mapping derived from
\* its own current label set and its IPv4 prefixes; none carries a mapping
\* computed from an earlier label set.
C12_NatFollowsLabels ==
    /\ \A w \in DOMAIN endpoint_cache : NatIsDerived(endpoint_cache[w])
    /\ \A i \in SetIndexes(calls) : NatIsDerived(calls[i].endpoint)

\* An update whose set_endpoint raised: the cached endpoint carries the new
\* labels, with a public IP, and a NAT list for them, while the Label Cache
\* entry is still the label set without a public IP; the other cached
\* endpoint, whose labels have no valid public IP, carries no NAT mapping.
C12_Witness ==
    /\ last.op = "update"
    /\ last.outcome = "raised"
    /\ SetIndexes(calls) # {}
    /\ DictHas(endpoint_cache, last.workload_id)
    /\ endpoint_cache[last.workload_id].labels = last.labels
    /\ endpoint_cache[last.workload_id].ipv4_nat # None
    /\ endpoint_cache[last.workload_id].ipv4_nat.list # <<>>
    /\ DictHas(label_cache, last.workload_id)
    /\ ~ DictHas(label_cache[last.workload_id], KD_PUBLIC_IP_LABEL)
    /\ \E w \in DOMAIN endpoint_cache : endpoint_cache[w].ipv4_nat = None

----------------------------------------------------------------------------
(* C13 *)

\* The label set has no kuberdock-public-ip label, or an invalid one.
NoValidPublicIp(labels) ==
    ~ ( /\ DictHas(labels, KD_PUBLIC_IP_LABEL)
        /\ labels[KD_PUBLIC_IP_LABEL] \in ValidIPs )

\* C13: when a MODIFIED event changes the labels of a workload to a label
\* set whose kuberdock-public-ip is invalid or absent, and the workload has
\* an endpoint in the Endpoint Cache or in the datastore, update_pod raises
\* only if a datastore call raises; the endpoint it passes to set_endpoint
\* carries the new labels and no NAT mapping, and when the calls return the
\* handler returns and the datastore record of the workload carries the new
\* labels and no ipv4_nat, whatever NAT mapping the endpoint carried before.
C13_InvalidPublicIpClearsNat ==
    [][ ( /\ last'.op = "update"
          /\ LabelsDiffer(last'.workload_id, last'.labels)
          /\ NoValidPublicIp(last'.labels)
          /\ \/ DictHas(endpoint_cache, last'.workload_id)
             \/ DictHas(datastore, last'.workload_id) )
        => /\ last'.outcome = "raised" => ~ NoCallRaised(calls')
           /\ \A i \in SetIndexes(calls') :
                 /\ calls'[i].endpoint.labels = last'.labels
                 /\ calls'[i].endpoint.ipv4_nat = None
           /\ NoCallRaised(calls')
                 => /\ last'.outcome = "returned"
                    /\ Cardinality(SetIndexes(calls')) = 1
                    /\ DictHas(datastore', last'.workload_id)
                    /\ datastore'[last'.workload_id].labels = last'.labels
                    /\ ~ DictHas(datastore'[last'.workload_id], "ipv4_nat")
      ]_vars

\* An update with an invalid public IP has written the cached endpoint of a
\* workload whose datastore record carried a NAT list: the record now has
\* the new labels and no ipv4_nat.
C13_Witness ==
    /\ last.op = "update"
    /\ last.outcome = "returned"
    /\ DictHas(last.labels, KD_PUBLIC_IP_LABEL)
    /\ last.labels[KD_PUBLIC_IP_LABEL] \notin ValidIPs
    /\ last.stored # None
    /\ DictHas(last.stored, "ipv4_nat")
    /\ last.stored["ipv4_nat"] # <<>>
    /\ Len(calls) = 1
    /\ calls[1].op = "set_endpoint"
    /\ datastore[last.workload_id].labels = last.labels
    /\ ~ DictHas(datastore[last.workload_id], "ipv4_nat")

----------------------------------------------------------------------------
(* C14 *)

\* The step is an update_pod invocation whose set_endpoint call raised.
WriteFailed ==
    /\ last'.op = "update"
    /\ SetIndexes(calls') # {}
    /\ \E i \in SetIndexes(calls') : calls'[i].result = "raised"

\* The failure reaches the caller, the datastore is as it was, and the Label
\* Cache entry of the workload is the one the write attempt found: the entry
\* load_caches made from the datastore if the invocation reloaded, the entry
\* of before the invocation otherwise.
FailurePropagates ==
    /\ last'.outcome = "raised"
    /\ datastore' = datastore
    /\ DictGetOrNone(label_cache', last'.workload_id) =
           IF GetIndexes(calls') # {}
           THEN datastore[last'.workload_id].labels
           ELSE DictGetOrNone(label_cache, last'.workload_id)

\* The step is the redelivery of the MODIFIED event of an update_pod
\* invocation whose set_endpoint call raised, with nothing in between.
Redelivery ==
    /\ last'.op = "update"
    /\ last'.repeat
    /\ last.outcome = "raised"
    /\ SetIndexes(calls) # {}

----------------------------------------------------------------------------
(* C15 *)

\* The step is an update_pod invocation that reloaded, found no endpoint of
\* the workload and returned without writing.
DeferredNow ==
    /\ last'.op = "update"
    /\ DictHas(deferred', last'.workload_id)

\* That invocation leaves the Label Cache entry of the workload as it was,
\* and it is not the label set of the event.
LabelsNotRecorded ==
    /\ DictGetOrNone(label_cache', last'.workload_id) # last'.labels
    /\ DictGetOrNone(label_cache', last'.workload_id)
           = DictGetOrNone(label_cache, last'.workload_id)

\* The step is the next MODIFIED event of a workload after a deferred one,
\* with the same labels and no ADDED event of the workload in between,
\* handled when the datastore holds an endpoint of the workload, and no
\* datastore call raises.
NextAfterDeferred ==
    /\ last'.op = "update"
    /\ last'.pending
    /\ DictHas(datastore, last'.workload_id)
    /\ NoCallRaised(calls')

\* After the step the datastore endpoint of the workload carries the labels
\* of the event.
DatastoreHasLabels ==
    /\ DictHas(datastore', last'.workload_id)
    /\ datastore'[last'.workload_id].labels = last'.labels

\* C15 as stated: a deferred update_pod does not set the Label Cache entry
\* of the workload to the new labels, and the next MODIFIED event of the
\* workload with the same labels, handled once the datastore holds an
\* endpoint of the workload, with no ADDED event of the workload in between,
\* leaves the datastore endpoint of the workload with those labels.
C15_DeferredChangeIsApplied ==
    [][ /\ DeferredNow => LabelsNotRecorded
        /\ NextAfterDeferred => DatastoreHasLabels ]_vars

\* C15 amended: a deferred update_pod does not set the Label Cache entry of
\* the workload to the new labels, and the next MODIFIED event of the
\* workload with the same labels, handled once the datastore holds an
\* endpoint of the workload, with no ADDED event of the workload in between,
\* writes the endpoint with those labels to the datastore, unless a reload in
\* between has cached an endpoint of the workload with exactly those labels:
\* then the event is ignored as unchanged and the datastore is left as it is.
C15_DeferredChangeIsWritten ==
    [][ /\ DeferredNow => LabelsNotRecorded
        /\ NextAfterDeferred
              => IF LabelsDiffer(last'.workload_id, last'.labels)
                 THEN /\ Cardinality(SetIndexes(calls')) = 1
                      /\ last'.outcome = "returned"
                      /\ DatastoreHasLabels
                 ELSE /\ calls' = <<>>
                      /\ datastore' = datastore
                      /\ DictHas(endpoint_cache, last'.workload_id)
                      /\ endpoint_cache[last'.workload_id].labels
                             = last'.labels ]_vars

\* The MODIFIED event of a deferred update, delivered again after the CNI
\* plugin created the endpoint with other labels, has written its labels
\* over them.
C15_Witness ==
    /\ last.op = "update"
    /\ last.pending
    /\ last.outcome = "returned"
    /\ last.stored # None
    /\ last.stored.labels # last.labels
    /\ SetIndexes(calls) # {}
    /\ datastore[last.workload_id].labels = last.labels
    /\ label_cache[last.workload_id] = last.labels

----------------------------------------------------------------------------
(* C16 *)

\* C16: a MODIFIED event of a workload that has no Label Cache entry is
\* treated as a label change whatever label set it carries: update_pod goes
\* on to the endpoint lookup, so its first datastore call is set_endpoint when
\* the Endpoint Cache holds the workload and get_endpoints, the reload, when
\* it does not; it does not return without a call.
C16_NoEntryIsAChange ==
    [][ ( /\ last'.op = "update"
          /\ ~ DictHas(label_cache, last'.workload_id) )
        => /\ calls' # <<>>
           /\ calls'[1].op = IF DictHas(endpoint_cache, last'.workload_id)
                             THEN "set_endpoint"
                             ELSE "get_endpoints" ]_vars

\* A MODIFIED event with a public IP label, of a workload that is in neither
\* cache nor in the datastore, has made update_pod reload, while the Label
\* Cache holds the other workload.
C16_Witness ==
    /\ last.op = "update"
    /\ last.outcome = "returned"
    /\ Len(calls) = 1
    /\ calls[1].op = "get_endpoints"
    /\ ~ DictHas(label_cache, last.workload_id)
    /\ label_cache # EmptyDict
    /\ DictHas(last.labels, KD_PUBLIC_IP_LABEL)

----------------------------------------------------------------------------
(* C17 *)

\* parse_pod left both caches as they were.
CachesUntouched ==
    /\ label_cache = EmptyDict
    /\ endpoint_cache = EmptyDict
    /\ datastore = EmptyDict
    /\ calls = <<>>

\* C17 as stated: for every Pod event, with or without a labels field, the
\* event object and both caches are the same after parse_pod as before it;
\* the namespace label is in the returned label set only.
C17_NoSideEffects ==
    pc = "parse_pod returned"
        => /\ obj = arg
           /\ CachesUntouched

\* C17 amended: parse_pod changes neither cache, and it leaves an event
\* without a labels field as it was; the labels mapping of an event that has
\* one is itself the returned label set, so after the call it holds the
\* namespace label, set to the namespace of the Pod, next to the labels it
\* held, and nothing else of the event is changed.
C17_OnlyEventLabelsChange ==
    pc = "parse_pod returned"
        => /\ CachesUntouched
           /\ obj.metadata.namespace = arg.metadata.namespace
           /\ obj.metadata.name = arg.metadata.name
           /\ DOMAIN obj.metadata = DOMAIN arg.metadata
           /\ ret.labels[K8S_NAMESPACE_LABEL] = arg.metadata.namespace
           /\ IF DictHas(arg.metadata, "labels")
              THEN /\ obj.metadata.labels = ret.labels
                   /\ DOMAIN ret.labels = DOMAIN arg.metadata.labels
                                              \cup {K8S_NAMESPACE_LABEL}
                   /\ \A k \in DOMAIN arg.metadata.labels
                                \ {K8S_NAMESPACE_LABEL} :
                         ret.labels[k] = arg.metadata.labels[k]
              ELSE /\ obj = arg
                   /\ DOMAIN ret.labels = {K8S_NAMESPACE_LABEL}

\* parse_pod has returned for an event whose labels mapping held another
\* label and another value under the namespace key: the mapping of the event
\* now holds the namespace of the Pod under that key.
C17_Witness ==
    /\ pc = "parse_pod returned"
    /\ DictHas(arg.metadata, "labels")
    /\ DictHas(arg.metadata.labels, "app")
    /\ DictHas(arg.metadata.labels, K8S_NAMESPACE_LABEL)
    /\ arg.metadata.labels[K8S_NAMESPACE_LABEL] # arg.metadata.namespace
    /\ obj # arg
    /\ obj.metadata.labels[K8S_NAMESPACE_LABEL] = arg.metadata.namespace

====
